---- MODULE Spec2Model ----
(***************************************************************************)
(* Process-Scheduler-Simulator: the priority dispatcher, the Task state    *)
(* machine (run / pause / resume) and the scheduler loop of src/main.rs,   *)
(* together with the child processes the loop controls.                    *)
(*                                                                         *)
(* The controller is single threaded: every handler (the admission loop,   *)
(* one dispatcher call, the quantum sleep, one reconciliation pass, one    *)
(* receive of the final drain) is one action.  The children run            *)
(* concurrently with it: a child that is alive and not stopped may exit    *)
(* between any two controller actions (ChildExit), and inside a handler    *)
(* between its status poll and the signal that follows (the race inputs    *)
(* of run and reconcile).                                                  *)
(***************************************************************************)
EXTENDS Integers, Sequences, FiniteSets, TLC

\* ------------------------------------------------------------------ bounds
NumTasks == 2       \* tasks in the collection
MaxQuanta == 1      \* quanta the children can outlive in all; after that a child
                    \* that gets the CPU exits before its quantum is over

\* ------------------------------------------------------- program constants
TIME_QUANTUM == 150
NoPid == 0

Tasks == 1..NumTasks
ExitKinds == {"zero", "nonzero", "signal"}
NoExit == "none"
Paths == {"good", "bad"}

VARIABLES
    pc,         \* position of main: admit, dispatch, sleep, reconcile, drain, done, blocked, panicked
    tasks,      \* the Vec<Task>, in collection order
    procs,      \* the OS side of each task's child process
    chan,       \* the mpsc channel: messages sent and not yet received
    received,   \* the messages taken by the final drain, in order
    now,        \* SystemTime::now(), in milliseconds since the tasks were created
    outlived,   \* quanta that a child was still alive at the end of
    ran,        \* for each task, the time it has spent in state Running
    selected    \* the task the last dispatcher call handed to run(), 0 if none

vars == <<pc, tasks, procs, chan, received, now, outlived, ran, selected>>

\* ------------------------------------------------------------ the OS side
\* A child is: none (never spawned), running (alive, not stopped), stopped
\* (alive, stopped by SIGSTOP), zombie (exited, not yet waited for), reaped
\* (waited for) or lost (no longer a child of the controller).
\* kind is the exit status a zombie holds until it is waited for; sigs is the
\* sequence of signals sent to it, each with the status of the child at the
\* moment of the kill() call; spawns counts the calls of command.spawn().
NoProc == [st |-> "none", kind |-> NoExit, sigs |-> <<>>, spawns |-> 0]

Alive(p) == p.st \in {"running", "stopped"}

\* What can happen to a child behind the controller's back: it exits on its
\* own (exit code 0, nonzero, or death by a signal), which only a child that
\* is executing can do, or it is lost (its pid no longer names a child of the
\* controller, so that the next wait on it fails).
Events == ExitKinds \cup {"lost"}

exit_child(p, ev) ==
    CASE ev \in ExitKinds /\ p.st = "running" -> [p EXCEPT !.st = "zombie", !.kind = ev]
      [] ev = "lost" /\ Alive(p) -> [p EXCEPT !.st = "lost"]
      [] OTHER -> p

\* kill(pid, sig) fails with ESRCH when the pid no longer names a process.
kill_fails(p) == p.st \in {"none", "reaped", "lost"}

kill(p, sig) ==
    [p EXCEPT !.sigs = Append(@, [sig |-> sig, target |-> p.st]),
              !.st = CASE sig = "SIGSTOP" /\ p.st = "running" -> "stopped"
                       [] sig = "SIGCONT" /\ p.st = "stopped" -> "running"
                       [] OTHER -> @]

\* waitpid(pid, WNOHANG) / Child::try_wait(): the status reported.
wait_status(p) ==
    CASE Alive(p) -> "StillAlive"
      [] p.st = "zombie" /\ p.kind = "zero" -> "ExitedZero"
      [] p.st = "zombie" /\ p.kind = "nonzero" -> "ExitedNonzero"
      [] p.st = "zombie" /\ p.kind = "signal" -> "Signaled"
      [] OTHER -> "Err"

\* A successful wait on an exited child reaps it: its status is consumed.
wait_reap(p) ==
    IF p.st = "zombie" THEN [p EXCEPT !.st = "reaped", !.kind = NoExit] ELSE p

\* ---------------------------------------------------------------- Task
\* Task::new
NewTask(path, priority) ==
    [pid |-> NoPid, path_to_binary |-> path, duration |-> 0, state |-> "New",
     priority |-> priority, exit_code |-> "None", created |-> 0]

\* A cell is a task together with its child and what the call did besides:
\* panic (an unwrap() failed) and msgs (what it sent on the channel).
Cell(t, p) == [t |-> t, p |-> p, panic |-> FALSE, msgs |-> <<>>]

\* elapsed with the two instants exchanged.
elapsed_backwards(t, clock) == t.created - clock

\* now.duration_since(self.created).unwrap().as_secs_f64()
elapsed(t, clock) == clock - t.created

\* pause with the state assignment left out.
pause_keeps_state(c) ==
    IF c.t.pid # NoPid
    THEN IF kill_fails(c.p)
         THEN [c EXCEPT !.p = kill(c.p, "SIGSTOP"), !.panic = TRUE]
         ELSE [c EXCEPT !.p = kill(c.p, "SIGSTOP")]
    ELSE c

\* pause with the kill() call left out.
pause_sends_nothing(c) ==
    IF c.t.pid # NoPid THEN [c EXCEPT !.t.state = "Waiting"] ELSE c

\* Task::pause
pause(c) ==
    IF c.t.pid # NoPid
    THEN IF kill_fails(c.p)
         THEN [c EXCEPT !.p = kill(c.p, "SIGSTOP"), !.panic = TRUE]
         ELSE [c EXCEPT !.p = kill(c.p, "SIGSTOP"), !.t.state = "Waiting"]
    ELSE c

\* resume that also reports Running on the channel.
resume_reports(c) ==
    IF c.t.pid # NoPid
    THEN IF kill_fails(c.p)
         THEN [c EXCEPT !.p = kill(c.p, "SIGCONT"), !.panic = TRUE]
         ELSE [c EXCEPT !.p = kill(c.p, "SIGCONT"), !.t.state = "Running",
                        !.msgs = Append(@, [from |-> c.t.pid, status |-> "Running"])]
    ELSE c

\* Task::resume
resume(c) ==
    IF c.t.pid # NoPid
    THEN IF kill_fails(c.p)
         THEN [c EXCEPT !.p = kill(c.p, "SIGCONT"), !.panic = TRUE]
         ELSE [c EXCEPT !.p = kill(c.p, "SIGCONT"), !.t.state = "Running"]
    ELSE c

\* The message a task sends: the sender (its place in the collection) and
\* the ExitStatus value.
Msg(i, status) == [from |-> i, status |-> status]

\* spawn_failed with the tx.send() left out.
spawn_failed_silent(i, c, clock) ==
    [c EXCEPT !.t.exit_code = "Failure",
              !.t.state = "Terminated",
              !.t.duration = @ + elapsed(c.t, clock)]

\* Task::run, the Err arm of command.spawn()
spawn_failed(i, c, clock) ==
    [c EXCEPT !.t.exit_code = "Failure",
              !.t.state = "Terminated",
              !.t.duration = @ + elapsed(c.t, clock),
              !.msgs = Append(@, Msg(i, "Terminated(Failure)"))]

\* Task::run, the Ok(Some(exit_status)) arm of child.try_wait()
first_poll_exited(i, c, success, clock) ==
    [c EXCEPT !.t.exit_code = IF success THEN "Success" ELSE "Failure",
              !.msgs = Append(@, Msg(i, IF success THEN "Terminated(Success)"
                                                   ELSE "Terminated(Failure)")),
              !.t.state = "Terminated",
              !.t.duration = @ + elapsed(c.t, clock)]

\* first_poll_alive with the tx.send() left out.
first_poll_alive_silent(i, c, race) ==
    pause([c EXCEPT !.t.state = "Running", !.p = exit_child(c.p, race)])

\* Task::run, the Ok(None) arm: report Running, then stop the child.  race is
\* an exit of the child between the poll and the SIGSTOP.
first_poll_alive(i, c, race) ==
    pause([c EXCEPT !.t.state = "Running",
                    !.msgs = Append(@, Msg(i, "Running")),
                    !.p = exit_child(c.p, race)])

\* Task::run, the Err arm of child.try_wait()
first_poll_error(i, c, clock) ==
    [c EXCEPT !.t.duration = @ + elapsed(c.t, clock),
              !.t.exit_code = "Failure",
              !.t.state = "Terminated",
              !.msgs = Append(@, Msg(i, "Terminated(Failure)"))]

\* Task::run.  early is what happens to the child before the first poll, race
\* an exit of the child between the poll and the SIGSTOP.
run(i, c, early, race, clock) ==
    IF c.t.pid = NoPid
    THEN LET c1 == [c EXCEPT !.t.state = "Running", !.p.spawns = @ + 1]
         IN  IF c.t.path_to_binary = "bad"
             THEN spawn_failed(i, c1, clock)
             ELSE LET spawned == [c1 EXCEPT !.p.st = "running", !.t.pid = i]
                      c2 == [spawned EXCEPT !.p = exit_child(@, early)]
                      w  == wait_status(c2.p)
                      c3 == [c2 EXCEPT !.p = wait_reap(@)]
                  IN  CASE w \in {"ExitedZero", "ExitedNonzero", "Signaled"} ->
                               first_poll_exited(i, c3, w = "ExitedZero", clock)
                        [] w = "StillAlive" -> first_poll_alive(i, c3, race)
                        [] OTHER -> first_poll_error(i, c3, clock)
    ELSE resume(c)

\* Task::get_current_state (task/mod.rs): the Status it returns, or Err.
get_current_state(c) ==
    IF c.t.pid # NoPid
    THEN LET w == wait_status(c.p)
         IN  CASE w = "StillAlive" -> "Running"
               [] w = "ExitedZero" -> "Terminated(Success)"
               [] w = "ExitedNonzero" -> "Terminated(Failure)"
               [] w = "Signaled" -> "Terminated(Failure)"
               [] OTHER -> "Err"
    ELSE "Err"

\* ------------------------------------------------------------ dispatcher
\* promote with the test widened to every task that is not Running.
promote_not_running(t) == IF t.state # "Running" THEN [t EXCEPT !.state = "Ready"] ELSE t

\* dispatcher, the promotion loop: every Waiting task becomes Ready.
promote(t) == IF t.state = "Waiting" THEN [t EXCEPT !.state = "Ready"] ELSE t

\* max_by_key in the place of min_by_key: the last of the maxima.
max_by_key(ts) ==
    LET ready == {i \in Tasks : ts[i].state = "Ready"}
    IN  IF ready = {} THEN 0
        ELSE CHOOSE i \in ready :
                 \A j \in ready : \/ ts[i].priority > ts[j].priority
                                  \/ ts[i].priority = ts[j].priority /\ i >= j

\* min_by_key over the New tasks instead of the Ready ones.
min_by_key_new(ts) ==
    LET fresh == {i \in Tasks : ts[i].state = "New"}
    IN  IF fresh = {} THEN 0
        ELSE CHOOSE i \in fresh :
                 \A j \in fresh : \/ ts[i].priority < ts[j].priority
                                  \/ ts[i].priority = ts[j].priority /\ i <= j

\* min_by_key returning the last of the minima instead of the first.
min_by_key_last(ts) ==
    LET ready == {i \in Tasks : ts[i].state = "Ready"}
    IN  IF ready = {} THEN 0
        ELSE CHOOSE i \in ready :
                 \A j \in ready : \/ ts[i].priority < ts[j].priority
                                  \/ ts[i].priority = ts[j].priority /\ i >= j

\* Iterator::min_by_key over the Ready tasks: the first of the minima.
min_by_key(ts) ==
    LET ready == {i \in Tasks : ts[i].state = "Ready"}
    IN  IF ready = {} THEN 0
        ELSE CHOOSE i \in ready :
                 \A j \in ready : \/ ts[i].priority < ts[j].priority
                                  \/ ts[i].priority = ts[j].priority /\ i <= j

\* ---------------------------------------------------------------- main
\* main, one task of the reconciliation loop.  early is what happens to the
\* child just before the waitpid, race an exit of the child between the
\* waitpid and the SIGSTOP.
reconcile(c, early, race, clock) ==
    IF c.t.state = "Running" /\ c.t.pid # NoPid
    THEN LET c0 == [c EXCEPT !.p = exit_child(@, early)]
             w  == wait_status(c0.p)
             c1 == [c0 EXCEPT !.p = wait_reap(@)]
         IN  CASE w = "StillAlive" -> pause([c1 EXCEPT !.p = exit_child(@, race)])
               [] w \in {"ExitedZero", "ExitedNonzero"} ->
                      [c1 EXCEPT !.t.exit_code = IF w = "ExitedZero" THEN "Success"
                                                                    ELSE "Failure",
                                 !.t.duration = @ + elapsed(c.t, clock),
                                 !.t.state = "Terminated"]
               [] OTHER ->
                      [c1 EXCEPT !.t.duration = @ + elapsed(c.t, clock),
                                 !.t.state = "Terminated"]
    ELSE c

\* all_done set as soon as one task is Terminated.
all_done_some(ts) == \E i \in Tasks : ts[i].state = "Terminated"

\* main, the all_done flag after the reconciliation loop.
all_done(ts) == \A i \in Tasks : ts[i].state = "Terminated"

\* ------------------------------------------------------------------ Init
\* The priorities of a task set.  The program only compares priorities, so a
\* task set is given up to the order of its priorities: the values used are
\* 1..k for some k, with ties when k < NumTasks.
Priorities ==
    {prio \in [Tasks -> Tasks] :
        \A v \in Tasks : (\E i \in Tasks : prio[i] = v) =>
                              \A u \in 1..v : \E j \in Tasks : prio[j] = u}

\* main after the vec! of Task::new calls: a fixed task set, every task New,
\* the channel empty.  The paths and priorities are the inputs of a run.
Init ==
    /\ pc = "admit"
    /\ tasks \in {[i \in Tasks |-> NewTask(path[i], prio[i])] :
                      path \in [Tasks -> Paths], prio \in Priorities}
    /\ procs = [i \in Tasks |-> NoProc]
    /\ chan = <<>>
    /\ received = <<>>
    /\ now = 0
    /\ outlived = 0
    /\ ran = [i \in Tasks |-> 0]
    /\ selected = 0

\* --------------------------------------------------------------- actions
\* main, the admission loop: every task becomes Ready.
Admit ==
    /\ pc = "admit"
    /\ tasks' = [i \in Tasks |-> [tasks[i] EXCEPT !.state = "Ready"]]
    /\ pc' = "dispatch"
    /\ UNCHANGED <<procs, chan, received, now, outlived, ran, selected>>

\* One call of dispatcher(): promote, select, run.  What the child does while
\* run() executes is an input of the step: early (it exits, or is lost,
\* between spawn() and try_wait()) and race (it exits between try_wait() and
\* the SIGSTOP).
Dispatch ==
    /\ pc = "dispatch"
    /\ LET promoted == [i \in Tasks |-> promote(tasks[i])]
           s == min_by_key(promoted)
       IN  IF s = 0
           THEN /\ tasks' = promoted
                /\ selected' = 0
                /\ pc' = "sleep"
                /\ UNCHANGED <<procs, chan>>
           ELSE \E early \in Events \cup {NoExit}, race \in ExitKinds \cup {NoExit} :
                    \* the inputs that the call does not read are fixed
                    /\ promoted[s].pid # NoPid \/ promoted[s].path_to_binary = "bad"
                           => early = NoExit /\ race = NoExit
                    /\ early # NoExit => race = NoExit
                    /\ LET c == run(s, Cell(promoted[s], procs[s]), early, race, now)
                       IN  /\ tasks' = [promoted EXCEPT ![s] = c.t]
                           /\ procs' = [procs EXCEPT ![s] = c.p]
                           /\ chan' = chan \o c.msgs
                           /\ selected' = s
                           /\ pc' = IF c.panic THEN "panicked" ELSE "sleep"
    /\ UNCHANGED <<received, now, outlived, ran>>

\* A child that is executing exits, at any moment between two steps of main.
ChildExit(i, kind) ==
    /\ procs[i].st = "running"
    /\ procs' = [procs EXCEPT ![i] = exit_child(@, kind)]
    /\ UNCHANGED <<pc, tasks, chan, received, now, outlived, ran, selected>>

\* thread::sleep(TIME_QUANTUM) returns, with the children that are executing
\* still alive.
Sleep ==
    /\ pc = "sleep"
    /\ LET executing == {i \in Tasks : procs[i].st = "running"}
       IN  /\ executing # {} => outlived < MaxQuanta
           /\ outlived' = outlived + Cardinality(executing)
    /\ now' = now + TIME_QUANTUM
    /\ ran' = [i \in Tasks |-> IF tasks[i].state = "Running"
                               THEN ran[i] + TIME_QUANTUM ELSE ran[i]]
    /\ pc' = "reconcile"
    /\ UNCHANGED <<tasks, procs, chan, received, selected>>

\* The reconciliation loop over all tasks, then the all_done test.  For each
\* task that is polled the inputs are early (the child is lost, so that the
\* waitpid fails) and race (it exits between the waitpid and the SIGSTOP); an
\* exit during the quantum is a ChildExit step before this one.
Reconcile ==
    /\ pc = "reconcile"
    /\ LET polled == {i \in Tasks : tasks[i].state = "Running" /\ tasks[i].pid # NoPid}
       IN  \E early \in [polled -> {"lost", NoExit}],
              race \in [polled -> ExitKinds \cup {NoExit}] :
               \* the inputs that the pass does not read are fixed
               /\ \A i \in polled : early[i] # NoExit \/ ~Alive(procs[i]) => race[i] = NoExit
               /\ LET cs == [i \in Tasks |->
                                IF i \in polled
                                THEN reconcile(Cell(tasks[i], procs[i]), early[i], race[i], now)
                                ELSE Cell(tasks[i], procs[i])]
                      ts == [i \in Tasks |-> cs[i].t]
                  IN  /\ tasks' = ts
                      /\ procs' = [i \in Tasks |-> cs[i].p]
                      /\ pc' = IF \E i \in Tasks : cs[i].panic THEN "panicked"
                               ELSE IF all_done(ts) THEN "drain" ELSE "dispatch"
    /\ UNCHANGED <<chan, received, now, outlived, ran, selected>>

\* main, the final drain and the last line: tasks.len() calls of rx.recv(),
\* then println!("All tasks completed!").  The senders are still in scope, so
\* a recv() on an empty channel blocks for ever.
Drain ==
    /\ pc = "drain"
    /\ LET k == IF Len(chan) < NumTasks THEN Len(chan) ELSE NumTasks
       IN  /\ received' = received \o SubSeq(chan, 1, k)
           /\ chan' = SubSeq(chan, k + 1, Len(chan))
           /\ pc' = IF k = NumTasks THEN "done" ELSE "blocked"
    /\ UNCHANGED <<tasks, procs, now, outlived, ran, selected>>

Next ==
    \/ Admit
    \/ Dispatch
    \/ \E i \in Tasks, kind \in ExitKinds : ChildExit(i, kind)
    \/ Sleep
    \/ Reconcile
    \/ Drain

Spec == Init /\ [][Next]_vars

\* The loop keeps ticking, and a child that is executing exits in the end
\* (with the Sleep guard: within its quantum, once MaxQuanta is used up).
Controller == Admit \/ Dispatch \/ Sleep \/ Reconcile \/ Drain

LiveSpec ==
    /\ Init
    /\ [][Next]_vars
    /\ WF_vars(Controller)
    /\ \A i \in Tasks : WF_vars(\E kind \in ExitKinds : ChildExit(i, kind))

\* A caller of the Task API calls pause() on a task that is Terminated, at a
\* point where main is between two of its steps; the run ends with the call.
PauseCall(i) ==
    /\ pc \in {"dispatch", "sleep", "reconcile", "drain", "done"}
    /\ tasks[i].state = "Terminated"
    /\ LET c == pause(Cell(tasks[i], procs[i]))
       IN  /\ tasks' = [tasks EXCEPT ![i] = c.t]
           /\ procs' = [procs EXCEPT ![i] = c.p]
           /\ pc' = IF c.panic THEN "panicked" ELSE "returned"
    /\ UNCHANGED <<chan, received, now, outlived, ran, selected>>

ApiNext ==
    \/ Next
    \/ \E i \in Tasks : PauseCall(i)

ApiSpec == Init /\ [][ApiNext]_vars

\* ================================================================ claims
Running == {i \in Tasks : tasks[i].state = "Running"}
Terminated == {i \in Tasks : tasks[i].state = "Terminated"}
DispatchStep == pc = "dispatch" /\ pc' # "dispatch"

\* C1: at every point where the loop can sample the task states, at most one
\* task is Running.
C1_AtMostOneRunning == Cardinality(Running) <= 1

\* C1, its case: one task Running in its quantum while another one, launched
\* or not, waits for the CPU.
C1_Witness ==
    /\ pc = "reconcile"
    /\ \E i \in Running : procs[i].st = "running" /\
           \E j \in Tasks \ {i} : tasks[j].state = "Ready"

\* C2: at every observation point a task has an exit code if and only if it
\* is Terminated.
C2_ExitCodeIffTerminated ==
    \A i \in Tasks : (tasks[i].exit_code # "None") <=> (tasks[i].state = "Terminated")

\* C3: a dispatcher call hands to run() a task that is Ready after the
\* promotion step, of the least priority value among those, and the earliest
\* such task in collection order; the other Ready tasks stay Ready.
C3_DispatchesMinReady ==
    [][DispatchStep /\ selected' # 0 =>
          LET ready == {j \in Tasks : tasks[j].state \in {"Ready", "Waiting"}}
              s == selected'
          IN  /\ s \in ready
              /\ tasks'[s].state # "Ready"
              /\ \A j \in ready \ {s} :
                    /\ tasks[s].priority <= tasks[j].priority
                    /\ tasks[s].priority = tasks[j].priority => s < j
                    /\ tasks'[j].state = "Ready"]_vars

\* C3, its case: a task was dispatched while a later task of the same
\* priority was Ready, and another was dispatched ahead of an earlier task.
C3_Witness ==
    /\ pc = "sleep"
    /\ selected # 0
    /\ \E j \in Tasks : /\ j > selected
                        /\ tasks[j].state = "Ready"
                        /\ tasks[j].priority = tasks[selected].priority

\* C4: the loop is left, and the run completes, only with every task
\* Terminated.
C4_ExitOnlyWhenAllTerminated ==
    pc \in {"drain", "done", "blocked"} => Terminated = Tasks

\* C4, its case: the run has completed, with a task that never had a child
\* and one whose child was preempted and resumed.
C4_Witness ==
    /\ pc = "done"
    /\ \E i, j \in Tasks : tasks[i].pid = NoPid /\ Len(procs[j].sigs) >= 3

\* C5: if the loop keeps ticking and every child exits after finitely many
\* quanta spent un-stopped, the run reaches "All tasks completed!" with every
\* task Terminated.
C5_EventuallyCompleted == <>(pc = "done" /\ Terminated = Tasks)

\* C5, its case: a completed run in which one binary could not be spawned
\* and another task's child was preempted and resumed before it exited.
C5_Witness ==
    /\ pc = "done"
    /\ \E i, j \in Tasks : /\ tasks[i].path_to_binary = "bad"
                           /\ Len(procs[j].sigs) >= 4
                           /\ tasks[j].exit_code = "Success"

\* C6: once a task is Terminated, no step changes its state, exit code,
\* duration or process handle.
C6_TerminatedIsAbsorbing ==
    [][\A i \in Tasks : tasks[i].state = "Terminated" =>
          /\ tasks'[i].state = "Terminated"
          /\ tasks'[i].exit_code = tasks[i].exit_code
          /\ tasks'[i].duration = tasks[i].duration
          /\ tasks'[i].pid = tasks[i].pid]_vars

\* C6, its case: a dispatcher call is about to run with one task Terminated
\* earlier (time has passed since) and another task still to be served.
C6_Witness ==
    /\ pc = "dispatch"
    /\ \E i \in Terminated : tasks[i].duration < now /\
           \E j \in Tasks : tasks[j].state = "Waiting"

\* C7: a dispatcher call that selects a task whose binary cannot be spawned
\* leaves it Terminated with exit code Failure and no pid, sends its child no
\* signal, and sends exactly one message, Terminated(Failure).
C7_SpawnFailure ==
    [][\A i \in Tasks :
          DispatchStep /\ selected' = i /\ tasks[i].path_to_binary = "bad" =>
              /\ tasks'[i].state = "Terminated"
              /\ tasks'[i].exit_code = "Failure"
              /\ tasks'[i].pid = NoPid
              /\ procs'[i].st = "none"
              /\ procs'[i].sigs = <<>>
              /\ \A j \in Tasks \ {i} : procs'[j] = procs[j]
              /\ chan' = Append(chan, Msg(i, "Terminated(Failure)"))]_vars

\* C7, its case: the dispatcher has just selected a task whose binary cannot
\* be spawned, while another task has a live child.
C7_Witness ==
    /\ pc = "sleep"
    /\ selected # 0
    /\ tasks[selected].path_to_binary = "bad"
    /\ \E j \in Tasks : tasks[j].pid # NoPid

\* C8: pause() on a Terminated task changes no task, sends no signal and
\* raises no error, whether the task has a pid or not.
C8_PauseTerminatedIsNoOp ==
    [][\A i \in Tasks : PauseCall(i) =>
          /\ tasks' = tasks
          /\ procs' = procs
          /\ pc' # "panicked"]_vars

\* C9: the signals sent to a task's child are SIGSTOP, SIGCONT, SIGSTOP, ...
\* in strict alternation, starting with SIGSTOP.
C9_StopContAlternate ==
    \A i \in Tasks : \A k \in 1..Len(procs[i].sigs) :
        procs[i].sigs[k].sig = IF k % 2 = 1 THEN "SIGSTOP" ELSE "SIGCONT"

\* C9, its case: a child that was stopped at launch, resumed, preempted at
\* the end of its quantum and resumed again.
C9_Witness ==
    \E i \in Tasks : Len(procs[i].sigs) >= 4 /\ procs[i].st = "running"

\* C10: no signal is sent to a child that has already exited.
C10_NoSignalToExitedChild ==
    \A i \in Tasks : \A k \in 1..Len(procs[i].sigs) :
        procs[i].sigs[k].target \in {"running", "stopped"}

\* C11: when the run reports completion, the final drain has made one receive
\* per task and has received, for every task, a Terminated message carrying
\* that task's final exit code.
C11_TerminalNotificationsDrained ==
    pc = "done" =>
        /\ Len(received) = NumTasks
        /\ \A i \in Tasks : \E k \in 1..Len(received) :
              /\ received[k].from = i
              /\ \/ tasks[i].exit_code = "Success" /\ received[k].status = "Terminated(Success)"
                 \/ tasks[i].exit_code = "Failure" /\ received[k].status = "Terminated(Failure)"

\* C12: no step decreases the duration of a task.
C12_DurationNeverDecreases ==
    [][\A i \in Tasks : tasks'[i].duration >= tasks[i].duration]_vars

\* C12, its case: a task whose duration was added to after its child had
\* been stopped and resumed.
C12_Witness ==
    \E i \in Tasks : tasks[i].duration > 0 /\ Len(procs[i].sigs) >= 2

\* C13: the duration of a task that is not Running is the total time it has
\* spent in state Running.
C13_DurationIsRunningTime ==
    \A i \in Tasks : tasks[i].state # "Running" => tasks[i].duration = ran[i]

\* C14: a step in which the status probe of a task fails (its child is lost)
\* leaves that task Terminated with exit code Failure, does not stop the
\* loop, and changes no other task's outcome or child.
C14_ProbeErrorIsFailure ==
    [][\A i \in Tasks : procs[i].st # "lost" /\ procs'[i].st = "lost" =>
          /\ tasks'[i].state = "Terminated"
          /\ tasks'[i].exit_code = "Failure"
          /\ pc' # "panicked"
          /\ \A j \in Tasks \ {i} :
                /\ procs'[j] = procs[j]
                /\ tasks'[j].exit_code = tasks[j].exit_code
                /\ tasks'[j].duration = tasks[j].duration
                /\ tasks'[j].pid = tasks[j].pid
                /\ (tasks'[j].state = "Terminated") = (tasks[j].state = "Terminated")]_vars

\* C15: an exit with code 0 is classified Success, an exit with a nonzero
\* code or by a signal Failure, at the first poll of run(), at the
\* reconciliation of a Running task and in get_current_state.
Classify(kind) == IF kind = "zero" THEN "Success" ELSE "Failure"

C15_ExitClassification ==
    \A i \in Tasks :
        /\ pc = "dispatch" /\ tasks[i].state = "Ready" /\ tasks[i].pid = NoPid
              /\ tasks[i].path_to_binary = "good" =>
                 \A kind \in ExitKinds :
                     run(i, Cell(tasks[i], procs[i]), kind, NoExit, now).t.exit_code
                         = Classify(kind)
        /\ tasks[i].state = "Running" /\ procs[i].st = "zombie" =>
              /\ get_current_state(Cell(tasks[i], procs[i]))
                     = IF procs[i].kind = "zero" THEN "Terminated(Success)"
                                                 ELSE "Terminated(Failure)"
              /\ reconcile(Cell(tasks[i], procs[i]), NoExit, NoExit, now).t.exit_code
                     = Classify(procs[i].kind)

\* C16: during the quantum sleep that follows a dispatch, the dispatched
\* task, if its child is alive, is Running and its child is not stopped.
C16_RunsForItsQuantum ==
    pc = "sleep" /\ selected # 0 /\ Alive(procs[selected]) =>
        tasks[selected].state = "Running" /\ procs[selected].st = "running"

\* C17: a dispatcher call takes a task out of Waiting only if that task has
\* spent at least one quantum Running since it was launched.
C17_PromotionIsGated ==
    [][\A i \in Tasks :
          DispatchStep /\ tasks[i].state = "Waiting" /\ tasks'[i].state # "Waiting"
              => ran[i] >= TIME_QUANTUM]_vars

\* C18: command.spawn() is called at most once for each task over a run.
C18_SpawnAtMostOnce == \A i \in Tasks : procs[i].spawns <= 1

\* C18, its case: a completed run with a task whose launch failed and a task
\* that was resumed twice, each spawned once.
C18_Witness ==
    /\ pc = "done"
    /\ \E i, j \in Tasks : /\ tasks[i].path_to_binary = "bad" /\ procs[i].spawns = 1
                           /\ Len(procs[j].sigs) >= 4 /\ procs[j].spawns = 1

\* C19: a dispatcher call calls run() on no task exactly when no task is
\* Ready after the promotion step, and otherwise on one task only: no other
\* task is launched, signalled or terminated, and at most one message is sent.
C19_OneRunPerTick ==
    [][DispatchStep =>
          /\ (selected' = 0) = (\A j \in Tasks : tasks[j].state \notin {"Ready", "Waiting"})
          /\ Len(chan') <= Len(chan) + 1
          /\ \A j \in Tasks \ {selected'} :
                /\ procs'[j] = procs[j]
                /\ tasks'[j].pid = tasks[j].pid
                /\ tasks'[j].state \in {tasks[j].state, "Ready"}]_vars

\* C19, its case: a tick whose dispatcher call launched one task while
\* another task was Ready.
C19_Witness ==
    /\ pc = "reconcile"
    /\ selected # 0
    /\ procs[selected].spawns = 1
    /\ \E j \in Tasks \ {selected} : tasks[j].state = "Ready" /\ procs[j].spawns = 0

\* C20: every task sends one message, at its first dispatch, and none later;
\* the loop is left with one message per task in the channel, and the final
\* drain does not block and leaves the channel empty.
SentBy(i) ==
    LET all == received \o chan
    IN  Cardinality({k \in 1..Len(all) : all[k].from = i})

C20_OneMessagePerTask ==
    /\ \A i \in Tasks : SentBy(i) = IF procs[i].spawns > 0 THEN 1 ELSE 0
    /\ pc = "drain" => Len(chan) = NumTasks
    /\ pc # "blocked"
    /\ pc = "done" => chan = <<>> /\ Len(received) = NumTasks

\* C20, its case: the drain has completed and one of the messages it took is
\* the Running report of a task that was later resumed, preempted and
\* reconciled.
C20_Witness ==
    /\ pc = "done"
    /\ \E i \in Tasks : /\ Len(procs[i].sigs) >= 4
                        /\ \E k \in 1..Len(received) :
                               received[k] = Msg(i, "Running")

\* C21: at every dispatcher call every task that is not Terminated is Ready
\* once the promotion loop has run, and the task handed to run() comes first,
\* by priority value and then by position, among the tasks that are not
\* Terminated; a task becomes Terminated only when every task that comes
\* before it is Terminated; and a task is dispatched only when every task
\* that comes before it is Terminated, so that while the first task's child
\* lives no other task is dispatched.
Before(i, j) ==
    \/ tasks[i].priority < tasks[j].priority
    \/ tasks[i].priority = tasks[j].priority /\ i < j

C21_StrictPriorityOrder ==
    [][/\ pc = "dispatch" =>
            \A i \in Tasks : promote(tasks[i]).state \in {"Ready", "Terminated"}
       /\ DispatchStep /\ selected' # 0 =>
            \A j \in Tasks \ (Terminated \cup {selected'}) : Before(selected', j)
       /\ \A i \in Tasks :
            tasks[i].state # "Terminated" /\ tasks'[i].state = "Terminated" =>
                \A j \in Tasks : Before(j, i) => tasks[j].state = "Terminated"
       /\ \A i \in Tasks :
            procs'[i].spawns > 0 =>
                \A j \in Tasks : Before(j, i) =>
                    tasks[j].state = "Terminated" \/ procs[i].spawns > 0]_vars

\* C21, its case: the first task has been launched, resumed, preempted after
\* a full quantum and resumed again, and a task that comes after it is still
\* Ready and has never been dispatched.
C21_Witness ==
    /\ pc = "sleep"
    /\ selected # 0
    /\ Len(procs[selected].sigs) >= 4
    /\ \E j \in Tasks : /\ Before(selected, j)
                        /\ tasks[j].state = "Ready"
                        /\ procs[j].spawns = 0

====
